---- MODULE Spec2Model ----
(***************************************************************************)
(* llh::mutexed::Mutexed<T, M, H>: a value wrapped with its inner mutex    *)
(* and, when H is has_cv, a condition variable.  Threads call the          *)
(* accessors of include/llh/mutexed.hpp; every accessor is split at the    *)
(* points where it locks, runs user code, unlocks and notifies.            *)
(***************************************************************************)
EXTENDS Integers, Sequences, FiniteSets, TLC

\* ---- bounds of the model
NumThreads == 2
MaxCalls == 2
Iterations == 2
StatMax == 2
LiveCalls == 1

Threads == 1..NumThreads
Wrappers == {"a", "b"}

VARIABLES
    shared_lockable,  \* [Wrappers -> BOOLEAN]: M has lock_shared/unlock_shared/try_lock_shared
    spy,              \* [Wrappers -> BOOLEAN]: M is the lockable_spy of the tests
    has_cv,           \* [Wrappers -> BOOLEAN]: H is has_cv
    mtx_,             \* [Wrappers -> [owner, sharers]]: the inner mutex
    val_,             \* [Wrappers -> [val, initialized]]: the wrapped value
    cv_,              \* [Wrappers -> SUBSET Threads]: threads blocked on the condition variable
    pc,               \* [Threads -> position inside the running accessor]
    op,               \* [Threads -> the accessor being run]
    obj,              \* [Threads -> the Mutexed the accessor was called on]
    fn,               \* [Threads -> the user functor of the call]
    local,            \* [Threads -> the value the user code has read]
    ret,              \* [Threads -> the bool a wait returns]
    timeout,          \* [Threads -> the cv wait of a timed wait returned cv_status::timeout]
    owns,             \* [Threads -> owns_lock() of the read guard the thread was given]
    args,             \* [Threads -> the Mutexed arguments of with_all_locked]
    first,            \* [Threads -> index of the argument std::lock blocks on]
    nlocked,          \* [Threads -> number of arguments std::lock holds]
    stats,            \* [Threads -> [Wrappers -> lock_stats]] of the running call
    ncalls,           \* [Threads -> number of accessor calls started]
    nb_notified,      \* [Threads -> number of cv_.notify_all() calls of the running call]
    exc,              \* [Threads -> an exception is propagating out of the running call]
    receiver          \* [Threads -> "const" / "mutable": the object expression of a with_locked
                      \*  call whose overload was resolved, "none" for every other call]

config == <<shared_lockable, spy, has_cv>>
objects == <<mtx_, val_, cv_>>
all_locker == <<args, first, nlocked>>
frame == <<pc, op, obj, fn, local, ret, timeout, owns, args, first, nlocked, stats, ncalls,
           nb_notified, exc, receiver>>
vars == <<shared_lockable, spy, has_cv, mtx_, val_, cv_, pc, op, obj, fn, local, ret,
          timeout, owns, args, first, nlocked, stats, ncalls, nb_notified, exc,
          receiver>>

\* ---- the wrapped values and the user code of the tests
flagged_int == [val |-> 1, initialized |-> FALSE]
int_zero == [val |-> 0, initialized |-> FALSE]

WriteFunctors == {"increment", "set", "times3"}

\* a functor or predicate that exits with an exception before it touches the value
Throws(f) == f = "throw"

\* what a functor taking T& leaves in the value it read as v
Invoke(f, v) ==
    CASE f = "increment" -> [v EXCEPT !.val = v.val + 1]
      [] f = "set"       -> [val |-> 2, initialized |-> TRUE]
      [] f = "times3"    -> [v EXCEPT !.val = v.val * 3]
      [] f = "assign7"   -> [v EXCEPT !.val = 7]
      [] f = "assign10"  -> [v EXCEPT !.val = 10]
      [] OTHER           -> v

\* the predicate the tests wait on
was_initialized(v) == v.initialized

\* ---- the inner mutex (what M provides)
free_mutex == [owner |-> {}, sharers |-> {}]

CanLock(w) == mtx_[w].owner = {} /\ mtx_[w].sharers = {}
CanLockShared(w) == mtx_[w].owner = {}

Lock(m, w, t) == [m EXCEPT ![w].owner = {t}]
Unlock(m, w, t) == [m EXCEPT ![w].owner = @ \ {t}]
LockShared(m, w, t) == [m EXCEPT ![w].sharers = @ \cup {t}]
UnlockShared(m, w, t) == [m EXCEPT ![w].sharers = @ \ {t}]

HoldsExclusive(t, w) == t \in mtx_[w].owner
HoldsShared(t, w) == t \in mtx_[w].sharers
Holds(t, w) == HoldsExclusive(t, w) \/ HoldsShared(t, w)

\* ---- lock_stats of the spy mutex, kept per call
no_stats ==
    [nb_locked |-> 0, nb_try_locked |-> 0, nb_unlocked |-> 0,
     nb_locked_shared |-> 0, nb_try_locked_shared |-> 0, nb_unlocked_shared |-> 0]

Bump(n) == IF n < StatMax THEN n + 1 ELSE n

\* only_lockable_spy / lockable_spy count the calls they forward
Count(st, t, w, field) ==
    IF spy[w] THEN [st EXCEPT ![t][w][field] = Bump(@)] ELSE st

\* ---- possibly_shared_lock: std::shared_lock<M> if M is shared_lockable,
\* ---- std::unique_lock<M> otherwise
CanLockPossiblyShared(w) ==
    IF shared_lockable[w] THEN CanLockShared(w) ELSE CanLock(w)

LockPossiblyShared(w, t) ==
    IF shared_lockable[w] THEN LockShared(mtx_, w, t) ELSE Lock(mtx_, w, t)

UnlockPossiblyShared(w, t) ==
    IF shared_lockable[w] THEN UnlockShared(mtx_, w, t) ELSE Unlock(mtx_, w, t)

CountLockPossiblyShared(t, w) ==
    IF shared_lockable[w] THEN Count(stats, t, w, "nb_locked_shared")
                          ELSE Count(stats, t, w, "nb_locked")

CountUnlockPossiblyShared(t, w) ==
    IF shared_lockable[w] THEN Count(stats, t, w, "nb_unlocked_shared")
                          ELSE Count(stats, t, w, "nb_unlocked")

HoldsPossiblyShared(t, w) ==
    IF shared_lockable[w] THEN HoldsShared(t, w) ELSE HoldsExclusive(t, w)

\* ---- entering an accessor (the caller's own bookkeeping, ncalls, is the caller's)
ReadOps == {"with_locked_const", "get_copy"}
WaitOps == {"wait", "wait_until"}

Enter(t, w, o, f, start) ==
    /\ pc[t] = "idle"
    /\ pc' = [pc EXCEPT ![t] = start]
    /\ op' = [op EXCEPT ![t] = o]
    /\ obj' = [obj EXCEPT ![t] = w]
    /\ fn' = [fn EXCEPT ![t] = f]
    /\ UNCHANGED <<config, receiver, nb_notified, exc, objects, local, ret, timeout, owns, stats, all_locker>>

\* with_locked(F&&) const
with_locked_const(t, w) == Enter(t, w, "with_locked_const", "read", "ps_lock")

\* with_locked(F&&), F invokable with T&: `notifier dn(*this)` is built first
with_locked(t, w, f) == Enter(t, w, "with_locked", f, "lock")

get_copy(t, w) == Enter(t, w, "get_copy", "read", "ps_lock")

\* locked(): the tuple's Lock is constructed in place
locked(t, w, f) == Enter(t, w, "locked", f, "lock")

locked_const(t, w) == Enter(t, w, "locked_const", "read", "ps_lock")

\* locked() const: `return locked_const();`
const_locked(t, w) == locked_const(t, w)

\* the waiting functions exist only when H is has_cv
wait(t, w) == has_cv[w] /\ Enter(t, w, "wait", "was_initialized", "ps_lock")
wait_until(t, w) == has_cv[w] /\ Enter(t, w, "wait_until", "was_initialized", "ps_lock")
\* cv_.wait_for(lock, rel_time, pred) is cv_.wait_until(lock, now() + rel_time, pred)
wait_for(t, w) == wait_until(t, w)

\* ---- `possibly_shared_lock lock(mtx_)`: blocks until the mutex is available
AfterPossiblySharedLock(o) ==
    CASE o \in ReadOps      -> "read"
      [] o = "locked_const" -> "guard"
      [] OTHER              -> "pred"

\* a read path whose lock is built with std::try_to_lock and never checked
possibly_shared_lock_ctor_try(t) ==
    /\ pc[t] = "ps_lock"
    /\ IF CanLockPossiblyShared(obj[t])
         THEN /\ mtx_' = LockPossiblyShared(obj[t], t)
              /\ stats' = CountLockPossiblyShared(t, obj[t])
              /\ owns' = [owns EXCEPT ![t] = TRUE]
         ELSE /\ owns' = [owns EXCEPT ![t] = FALSE]
              /\ UNCHANGED <<mtx_, stats>>
    /\ pc' = [pc EXCEPT ![t] = AfterPossiblySharedLock(op[t])]
    /\ UNCHANGED <<config, receiver, nb_notified, exc, val_, cv_, op, obj, fn, local, ret, timeout, ncalls, all_locker>>

\* a read path built on std::unique_lock whatever M is
possibly_shared_lock_ctor_unique(t) ==
    /\ pc[t] = "ps_lock"
    /\ CanLock(obj[t])
    /\ mtx_' = Lock(mtx_, obj[t], t)
    /\ stats' = Count(stats, t, obj[t], "nb_locked")
    /\ owns' = [owns EXCEPT ![t] = TRUE]
    /\ pc' = [pc EXCEPT ![t] = AfterPossiblySharedLock(op[t])]
    /\ UNCHANGED <<config, receiver, nb_notified, exc, val_, cv_, op, obj, fn, local, ret, timeout, ncalls, all_locker>>

possibly_shared_lock_ctor(t) ==
    /\ pc[t] = "ps_lock"
    /\ CanLockPossiblyShared(obj[t])
    /\ mtx_' = LockPossiblyShared(obj[t], t)
    /\ stats' = CountLockPossiblyShared(t, obj[t])
    /\ owns' = [owns EXCEPT ![t] = TRUE]
    /\ pc' = [pc EXCEPT ![t] = AfterPossiblySharedLock(op[t])]
    /\ UNCHANGED <<config, receiver, nb_notified, exc, val_, cv_, op, obj, fn, local, ret, timeout, ncalls, all_locker>>

\* ---- `std::lock_guard lock(mtx_)` of with_locked, and Lock::Lock of locked()
AfterLock(o) == IF o = "with_locked" THEN "invoke" ELSE "guard"

\* a write path that takes the lock of the read path
lock_ctor_possibly_shared(t) ==
    /\ pc[t] = "lock"
    /\ CanLockPossiblyShared(obj[t])
    /\ mtx_' = LockPossiblyShared(obj[t], t)
    /\ stats' = CountLockPossiblyShared(t, obj[t])
    /\ pc' = [pc EXCEPT ![t] = AfterLock(op[t])]
    /\ UNCHANGED <<config, receiver, nb_notified, exc, val_, cv_, op, obj, fn, local, ret, timeout, owns, ncalls, all_locker>>

lock_ctor(t) ==
    /\ pc[t] = "lock"
    /\ CanLock(obj[t])
    /\ mtx_' = Lock(mtx_, obj[t], t)
    /\ stats' = Count(stats, t, obj[t], "nb_locked")
    /\ pc' = [pc EXCEPT ![t] = AfterLock(op[t])]
    /\ UNCHANGED <<config, receiver, nb_notified, exc, val_, cv_, op, obj, fn, local, ret, timeout, owns, ncalls, all_locker>>

\* ---- std::invoke(f, val_) of the const with_locked, and `return val_` of get_copy
invoke_const(t) ==
    /\ pc[t] = "read"
    /\ local' = [local EXCEPT ![t] = val_[obj[t]]]
    /\ exc' = [exc EXCEPT ![t] = Throws(fn[t])]
    /\ pc' = [pc EXCEPT ![t] = "ps_unlock"]
    /\ UNCHANGED <<config, receiver, nb_notified, objects, op, obj, fn, ret, timeout, owns, stats, ncalls, all_locker>>

\* ---- std::invoke(f, val_) of the non-const with_locked: f reads the value ...
invoke_read(t) ==
    /\ pc[t] = "invoke"
    /\ local' = [local EXCEPT ![t] = val_[obj[t]]]
    /\ pc' = [pc EXCEPT ![t] = "invoke_write"]
    /\ UNCHANGED <<config, receiver, nb_notified, exc, objects, op, obj, fn, ret, timeout, owns, stats, ncalls, all_locker>>

\* ---- ... and stores what it computed from it
invoke_write(t) ==
    /\ pc[t] = "invoke_write"
    /\ val_' = [val_ EXCEPT ![obj[t]] = Invoke(fn[t], local[t])]
    /\ exc' = [exc EXCEPT ![t] = Throws(fn[t])]
    /\ pc' = [pc EXCEPT ![t] = "unlock"]
    /\ UNCHANGED <<config, receiver, nb_notified, mtx_, cv_, op, obj, fn, local, ret, timeout, owns, stats, ncalls, all_locker>>

\* ---- the caller uses the reference of the tuple while the guard is alive
use_ref(t) ==
    /\ pc[t] = "guard"
    /\ IF op[t] = "locked"
         THEN /\ val_' = [val_ EXCEPT ![obj[t]] = Invoke(fn[t], @)]
              /\ UNCHANGED local
         ELSE /\ local' = [local EXCEPT ![t] = val_[obj[t]]]
              /\ UNCHANGED val_
    /\ exc' = [exc EXCEPT ![t] = Throws(fn[t])]
    /\ pc' = [pc EXCEPT ![t] = "guard_end"]
    /\ UNCHANGED <<config, receiver, nb_notified, mtx_, cv_, op, obj, fn, ret, timeout, owns, stats, ncalls, all_locker>>

\* `dn` declared after `lock`: the notifier is destroyed while the lock is held
lock_guard_dtor_after_notifier(t) ==
    /\ pc[t] = "unlock"
    /\ pc' = [pc EXCEPT ![t] = "notify"]
    /\ UNCHANGED <<config, receiver, nb_notified, exc, objects, op, obj, fn, local, ret, timeout, owns, stats, ncalls, all_locker>>

\* a notifier that stays silent while an exception unwinds the write scope
defer_notify_dtor_unless_exception(t) ==
    /\ pc[t] = "notify"
    /\ cv_' = IF has_cv[obj[t]] /\ ~exc[t] THEN [cv_ EXCEPT ![obj[t]] = {}] ELSE cv_
    /\ nb_notified' = [nb_notified EXCEPT ![t] = IF has_cv[obj[t]] /\ ~exc[t] THEN @ + 1 ELSE @]
    /\ pc' = [pc EXCEPT ![t] = "return"]
    /\ UNCHANGED <<config, receiver, exc, mtx_, val_, op, obj, fn, local, ret, timeout, owns, stats, ncalls, all_locker>>

\* a write scope that has no notifier: nobody is woken
defer_notify_dtor_absent(t) ==
    /\ pc[t] = "notify"
    /\ pc' = [pc EXCEPT ![t] = "return"]
    /\ UNCHANGED <<config, receiver, nb_notified, exc, objects, op, obj, fn, local, ret, timeout, owns, stats, ncalls, all_locker>>

\* mtx_.lock(); f(val_); mtx_.unlock(): the unlock is skipped when f throws
lock_guard_dtor_unless_exception(t) ==
    /\ pc[t] = "unlock"
    /\ mtx_' = IF exc[t] THEN mtx_ ELSE Unlock(mtx_, obj[t], t)
    /\ stats' = IF exc[t] THEN stats ELSE Count(stats, t, obj[t], "nb_unlocked")
    /\ pc' = [pc EXCEPT ![t] = "notify"]
    /\ UNCHANGED <<config, receiver, nb_notified, exc, val_, cv_, op, obj, fn, local, ret, timeout, owns, ncalls, all_locker>>

\* ---- ~lock_guard of with_locked: `lock` is destroyed before `dn`
lock_guard_dtor(t) ==
    /\ pc[t] = "unlock"
    /\ mtx_' = Unlock(mtx_, obj[t], t)
    /\ stats' = Count(stats, t, obj[t], "nb_unlocked")
    /\ pc' = [pc EXCEPT ![t] = "notify"]
    /\ UNCHANGED <<config, receiver, nb_notified, exc, val_, cv_, op, obj, fn, local, ret, timeout, owns, ncalls, all_locker>>

\* ---- Lock::~Lock, first statement: unlock()
Lock_dtor_unlock(t) ==
    /\ pc[t] = "guard_end"
    /\ op[t] = "locked"
    /\ mtx_' = Unlock(mtx_, obj[t], t)
    /\ stats' = Count(stats, t, obj[t], "nb_unlocked")
    /\ pc' = [pc EXCEPT ![t] = "notify"]
    /\ UNCHANGED <<config, receiver, nb_notified, exc, val_, cv_, op, obj, fn, local, ret, timeout, owns, ncalls, all_locker>>

\* ---- cv_.notify_all(): every thread blocked on the condition variable is woken
notify_all(w) == [cv_ EXCEPT ![w] = {}]

\* ---- ~defer_notify of with_locked and the `if constexpr` of Lock::~Lock:
\* ---- nothing is done when H is no_cv
defer_notify_dtor(t) ==
    /\ pc[t] = "notify"
    /\ cv_' = IF has_cv[obj[t]] THEN notify_all(obj[t]) ELSE cv_
    /\ nb_notified' = [nb_notified EXCEPT ![t] = IF has_cv[obj[t]] THEN @ + 1 ELSE @]
    /\ pc' = [pc EXCEPT ![t] = "return"]
    /\ UNCHANGED <<config, receiver, exc, mtx_, val_, op, obj, fn, local, ret, timeout, owns, stats, ncalls, all_locker>>

\* a read scope that ends like a write scope: unlock, then notify_all
possibly_shared_lock_dtor_notifying(t) ==
    /\ \/ pc[t] = "ps_unlock"
       \/ pc[t] = "guard_end" /\ op[t] = "locked_const"
    /\ IF owns[t]
         THEN /\ mtx_' = UnlockPossiblyShared(obj[t], t)
              /\ stats' = CountUnlockPossiblyShared(t, obj[t])
         ELSE UNCHANGED <<mtx_, stats>>
    /\ owns' = [owns EXCEPT ![t] = FALSE]
    /\ cv_' = IF has_cv[obj[t]] THEN [cv_ EXCEPT ![obj[t]] = {}] ELSE cv_
    /\ nb_notified' = [nb_notified EXCEPT ![t] = IF has_cv[obj[t]] THEN @ + 1 ELSE @]
    /\ pc' = [pc EXCEPT ![t] = "return"]
    /\ UNCHANGED <<config, receiver, exc, val_, op, obj, fn, local, ret, timeout, ncalls, all_locker>>

\* ---- ~possibly_shared_lock: unlocks if it owns the lock
possibly_shared_lock_dtor(t) ==
    /\ \/ pc[t] = "ps_unlock"
       \/ pc[t] = "guard_end" /\ op[t] = "locked_const"
    /\ IF owns[t]
         THEN /\ mtx_' = UnlockPossiblyShared(obj[t], t)
              /\ stats' = CountUnlockPossiblyShared(t, obj[t])
         ELSE UNCHANGED <<mtx_, stats>>
    /\ owns' = [owns EXCEPT ![t] = FALSE]
    /\ pc' = [pc EXCEPT ![t] = "return"]
    /\ UNCHANGED <<config, receiver, nb_notified, exc, val_, cv_, op, obj, fn, local, ret, timeout, ncalls, all_locker>>

\* ---- the waiting functions: cv_.wait(lock, pred), wait_for, wait_until
\* `while (!pred()) wait(lock);` for wait, and for the timed ones
\* `while (!pred()) if (wait_until(lock, t) == timeout) return pred(); return true;`
AfterPred(p, timed_out) == IF p \/ timed_out THEN "ps_unlock" ELSE "cv_wait"

\* a timed wait that returns the cv_status of the last wait, not pred()
pred_unless_timeout(t) ==
    /\ pc[t] = "pred"
    /\ LET p == ~timeout[t] /\ was_initialized(val_[obj[t]]) IN
         /\ ret' = [ret EXCEPT ![t] = p]
         /\ pc' = [pc EXCEPT ![t] = AfterPred(p, timeout[t])]
    /\ UNCHANGED <<config, receiver, nb_notified, exc, objects, op, obj, fn, local, timeout, owns, stats, ncalls, all_locker>>

\* an exception of the predicate leaves cv_.wait at once, the lock being held
pred(t) ==
    /\ pc[t] = "pred"
    /\ IF Throws(fn[t])
         THEN /\ exc' = [exc EXCEPT ![t] = TRUE]
              /\ pc' = [pc EXCEPT ![t] = "ps_unlock"]
              /\ UNCHANGED ret
         ELSE LET p == was_initialized(val_[obj[t]]) IN
              /\ ret' = [ret EXCEPT ![t] = p]
              /\ pc' = [pc EXCEPT ![t] = AfterPred(p, timeout[t])]
              /\ UNCHANGED exc
    /\ UNCHANGED <<config, receiver, nb_notified, objects, op, obj, fn, local, timeout, owns, stats, ncalls, all_locker>>

\* a wait that blocks on the condition variable with the lock still held
cv_wait_holding(t) ==
    /\ pc[t] = "cv_wait"
    /\ cv_' = [cv_ EXCEPT ![obj[t]] = @ \cup {t}]
    /\ pc' = [pc EXCEPT ![t] = "blocked"]
    /\ UNCHANGED <<config, receiver, nb_notified, exc, mtx_, val_, op, obj, fn, local, ret, timeout, owns, stats, ncalls, all_locker>>

\* the condition variable releases the lock and blocks the thread in one step
cv_wait(t) ==
    /\ pc[t] = "cv_wait"
    /\ mtx_' = UnlockPossiblyShared(obj[t], t)
    /\ stats' = CountUnlockPossiblyShared(t, obj[t])
    /\ cv_' = [cv_ EXCEPT ![obj[t]] = @ \cup {t}]
    /\ pc' = [pc EXCEPT ![t] = "blocked"]
    /\ UNCHANGED <<config, receiver, nb_notified, exc, val_, op, obj, fn, local, ret, timeout, owns, ncalls, all_locker>>

\* a spurious wake-up
spurious_wakeup(t) ==
    /\ pc[t] = "blocked"
    /\ t \in cv_[obj[t]]
    /\ cv_' = [cv_ EXCEPT ![obj[t]] = @ \ {t}]
    /\ UNCHANGED <<config, mtx_, val_, frame>>

\* the time bound of wait_for / wait_until elapses before the wait returns
timed_out(t) ==
    /\ pc[t] = "blocked"
    /\ op[t] = "wait_until"
    /\ ~timeout[t]
    /\ timeout' = [timeout EXCEPT ![t] = TRUE]
    /\ cv_' = [cv_ EXCEPT ![obj[t]] = @ \ {t}]
    /\ UNCHANGED <<config, receiver, nb_notified, exc, mtx_, val_, pc, op, obj, fn, local, ret, owns, stats, ncalls, all_locker>>

\* cv_.wait(lock) without the predicate: any wake-up ends the wait
cv_relock_unchecked(t) ==
    /\ pc[t] = "blocked"
    /\ t \notin cv_[obj[t]]
    /\ CanLockPossiblyShared(obj[t])
    /\ mtx_' = LockPossiblyShared(obj[t], t)
    /\ stats' = CountLockPossiblyShared(t, obj[t])
    /\ pc' = [pc EXCEPT ![t] = "ps_unlock"]
    /\ UNCHANGED <<config, receiver, nb_notified, exc, val_, cv_, op, obj, fn, local, ret, timeout, owns, ncalls, all_locker>>

\* once woken, the wait re-acquires the lock before it returns to the loop
cv_relock(t) ==
    /\ pc[t] = "blocked"
    /\ t \notin cv_[obj[t]]
    /\ CanLockPossiblyShared(obj[t])
    /\ mtx_' = LockPossiblyShared(obj[t], t)
    /\ stats' = CountLockPossiblyShared(t, obj[t])
    /\ pc' = [pc EXCEPT ![t] = "pred"]
    /\ UNCHANGED <<config, receiver, nb_notified, exc, val_, cv_, op, obj, fn, local, ret, timeout, owns, ncalls, all_locker>>

\* ---- with_all_locked(f, mtxs...): details::all_locker::operator()
\* lockable_proxy<M const> of a shared_lockable M forwards lock, unlock and try_lock
\* to lock_shared, unlock_shared and try_lock_shared; every other proxy forwards
\* them unchanged
\* no lockable_proxy<M const> specialization: every proxy forwards to lock()
ProxyShared_never(a) == FALSE

ProxyShared(a) == a.is_const /\ shared_lockable[a.m]

ProxyCanLock(a) == IF ProxyShared(a) THEN CanLockShared(a.m) ELSE CanLock(a.m)

ProxyLock(m, a, t) ==
    IF ProxyShared(a) THEN LockShared(m, a.m, t) ELSE Lock(m, a.m, t)

ProxyUnlock(m, a, t) ==
    IF ProxyShared(a) THEN UnlockShared(m, a.m, t) ELSE Unlock(m, a.m, t)

ProxyHolds(a, t) ==
    IF ProxyShared(a) THEN HoldsShared(t, a.m) ELSE HoldsExclusive(t, a.m)

ProxyCount(st, a, t, what) ==
    Count(st, t, a.m,
          IF ProxyShared(a)
            THEN CASE what = "lock" -> "nb_locked_shared"
                   [] what = "try_lock" -> "nb_try_locked_shared"
                   [] OTHER -> "nb_unlocked_shared"
            ELSE CASE what = "lock" -> "nb_locked"
                   [] what = "try_lock" -> "nb_try_locked"
                   [] OTHER -> "nb_unlocked")

\* the argument lists: distinct Mutexed, each passed mutable or as a const reference
Arg == [m : Wrappers, is_const : BOOLEAN]
ArgLists ==
    {<<a>> : a \in Arg} \cup
    {<<p[1], p[2]>> : p \in {q \in Arg \X Arg : q[1].m # q[2].m}}

\* index of the k-th argument counted from the one std::lock started with
Nth(t, k) == ((first[t] - 1 + k) % Len(args[t])) + 1

\* the arguments the running std::lock / scoped_lock holds
HeldIdx(t) == {Nth(t, k) : k \in 0..(nlocked[t] - 1)}

RECURSIVE UnlockAll(_, _, _)
UnlockAll(m, t, idx) ==
    IF idx = {} THEN m
    ELSE LET i == CHOOSE x \in idx : TRUE
         IN UnlockAll(ProxyUnlock(m, args[t][i], t), t, idx \ {i})

RECURSIVE CountUnlockAll(_, _, _)
CountUnlockAll(st, t, idx) ==
    IF idx = {} THEN st
    ELSE LET i == CHOOSE x \in idx : TRUE
         IN CountUnlockAll(ProxyCount(st, args[t][i], t, "unlock"), t, idx \ {i})

with_all_locked(t, as, f) ==
    /\ pc[t] = "idle"
    /\ pc' = [pc EXCEPT ![t] = "std_lock"]
    /\ op' = [op EXCEPT ![t] = "with_all_locked"]
    /\ fn' = [fn EXCEPT ![t] = f]
    /\ args' = [args EXCEPT ![t] = as]
    /\ first' = [first EXCEPT ![t] = 1]
    /\ nlocked' = [nlocked EXCEPT ![t] = 0]
    /\ UNCHANGED <<config, receiver, nb_notified, exc, objects, obj, local, ret, timeout, owns, stats>>

\* a lock taken on the first argument only
std_lock_block_first_only(t) ==
    /\ pc[t] = "std_lock"
    /\ LET a == args[t][first[t]] IN
         /\ ProxyCanLock(a)
         /\ mtx_' = ProxyLock(mtx_, a, t)
         /\ stats' = ProxyCount(stats, a, t, "lock")
    /\ nlocked' = [nlocked EXCEPT ![t] = 1]
    /\ pc' = [pc EXCEPT ![t] = "invoke_all"]
    /\ UNCHANGED <<config, receiver, nb_notified, exc, val_, cv_, op, obj, fn, local, ret, timeout, owns, args, first, ncalls>>

\* std::scoped_lock -> std::lock: a blocking lock() on the argument it starts from
std_lock_block(t) ==
    /\ pc[t] = "std_lock"
    /\ LET a == args[t][first[t]] IN
         /\ ProxyCanLock(a)
         /\ mtx_' = ProxyLock(mtx_, a, t)
         /\ stats' = ProxyCount(stats, a, t, "lock")
    /\ nlocked' = [nlocked EXCEPT ![t] = 1]
    /\ pc' = [pc EXCEPT ![t] = IF Len(args[t]) = 1 THEN "invoke_all" ELSE "try_lock"]
    /\ UNCHANGED <<config, receiver, nb_notified, exc, val_, cv_, op, obj, fn, local, ret, timeout, owns, args, first, ncalls>>

\* the arguments locked one after the other with a blocking lock(), in the order
\* the caller listed them
std_lock_in_order(t) ==
    /\ pc[t] = "try_lock"
    /\ LET a == args[t][Nth(t, nlocked[t])] IN
         /\ ProxyCanLock(a)
         /\ mtx_' = ProxyLock(mtx_, a, t)
         /\ stats' = ProxyCount(stats, a, t, "lock")
    /\ nlocked' = [nlocked EXCEPT ![t] = @ + 1]
    /\ pc' = [pc EXCEPT ![t] = IF nlocked[t] + 1 = Len(args[t]) THEN "invoke_all" ELSE "try_lock"]
    /\ UNCHANGED <<config, receiver, nb_notified, exc, val_, cv_, op, obj, fn, local, ret, timeout, owns, args, first, ncalls>>

\* std::lock: try_lock() on the next argument; it may fail although the mutex is
\* free; a failure is followed by the back-off
std_lock_try(t) ==
    /\ pc[t] = "try_lock"
    /\ LET i == Nth(t, nlocked[t])
           a == args[t][i]
           tried == ProxyCount(stats, a, t, "try_lock")
       IN \E locks \in {b \in BOOLEAN : b => ProxyCanLock(a)} :
          IF locks
            THEN /\ mtx_' = ProxyLock(mtx_, a, t)
                 /\ stats' = tried
                 /\ nlocked' = [nlocked EXCEPT ![t] = @ + 1]
                 /\ pc' = [pc EXCEPT ![t] = IF nlocked[t] + 1 = Len(args[t])
                                              THEN "invoke_all" ELSE "try_lock"]
            ELSE /\ mtx_' = mtx_
                 /\ stats' = tried
                 /\ nlocked' = nlocked
                 /\ pc' = [pc EXCEPT ![t] = "back_off"]
    /\ UNCHANGED <<config, receiver, nb_notified, exc, val_, cv_, op, obj, fn, local, ret, timeout, owns, args, first, ncalls>>

\* a back-off that starts again from the argument it started from before
std_lock_back_off_same_first(t) ==
    /\ pc[t] = "back_off"
    /\ mtx_' = UnlockAll(mtx_, t, HeldIdx(t))
    /\ stats' = CountUnlockAll(stats, t, HeldIdx(t))
    /\ nlocked' = [nlocked EXCEPT ![t] = 0]
    /\ pc' = [pc EXCEPT ![t] = "std_lock"]
    /\ UNCHANGED <<config, receiver, nb_notified, exc, val_, cv_, op, obj, fn, local, ret, timeout, owns, args, first, ncalls>>

\* a back-off that goes on holding what was locked
std_lock_back_off_keeping(t) ==
    /\ pc[t] = "back_off"
    /\ nlocked' = [nlocked EXCEPT ![t] = 0]
    /\ first' = [first EXCEPT ![t] = Nth(t, nlocked[t])]
    /\ pc' = [pc EXCEPT ![t] = "std_lock"]
    /\ UNCHANGED <<config, receiver, nb_notified, exc, objects, op, obj, fn, local, ret, timeout, owns, args, stats, ncalls>>

\* std::lock after a failed try_lock(): everything held is unlocked, and the
\* algorithm starts again with a blocking lock() on the argument that failed
std_lock_back_off(t) ==
    /\ pc[t] = "back_off"
    /\ mtx_' = UnlockAll(mtx_, t, HeldIdx(t))
    /\ stats' = CountUnlockAll(stats, t, HeldIdx(t))
    /\ nlocked' = [nlocked EXCEPT ![t] = 0]
    /\ first' = [first EXCEPT ![t] = Nth(t, nlocked[t])]
    /\ pc' = [pc EXCEPT ![t] = "std_lock"]
    /\ UNCHANGED <<config, receiver, nb_notified, exc, val_, cv_, op, obj, fn, local, ret, timeout, owns, args, ncalls>>

\* std::invoke(f, mp.inner_val_ref()...): f gets T& for the mutable arguments
\* and T const& for the others, and returns what it read from its first argument
invoke_all(t) ==
    /\ pc[t] = "invoke_all"
    /\ val_' = [w \in Wrappers |->
                  IF \E i \in 1..Len(args[t]) : args[t][i].m = w /\ ~args[t][i].is_const
                    THEN Invoke(fn[t], val_[w]) ELSE val_[w]]
    /\ local' = [local EXCEPT ![t] = val_[args[t][1].m]]
    /\ exc' = [exc EXCEPT ![t] = Throws(fn[t])]
    /\ pc' = [pc EXCEPT ![t] = "unlock_all"]
    /\ UNCHANGED <<config, receiver, nb_notified, mtx_, cv_, op, obj, fn, ret, timeout, owns, stats, ncalls, all_locker>>

\* a with_all_locked that notifies the waiting-enabled wrappers it locked exclusively
scoped_lock_dtor_notifying(t) ==
    /\ pc[t] = "unlock_all"
    /\ mtx_' = UnlockAll(mtx_, t, HeldIdx(t))
    /\ stats' = CountUnlockAll(stats, t, HeldIdx(t))
    /\ nlocked' = [nlocked EXCEPT ![t] = 0]
    /\ LET written == {w \in Wrappers : has_cv[w] /\ \E i \in 1..Len(args[t]) :
                                           args[t][i].m = w /\ ~args[t][i].is_const}
       IN /\ cv_' = [w \in Wrappers |-> IF w \in written THEN {} ELSE cv_[w]]
          /\ nb_notified' = [nb_notified EXCEPT ![t] = @ + Cardinality(written)]
    /\ pc' = [pc EXCEPT ![t] = "return"]
    /\ UNCHANGED <<config, receiver, exc, val_, op, obj, fn, local, ret, timeout, owns, args, first, ncalls>>

\* a scoped_lock that unlocks only the argument std::lock started from
scoped_lock_dtor_first_only(t) ==
    /\ pc[t] = "unlock_all"
    /\ mtx_' = UnlockAll(mtx_, t, {first[t]})
    /\ stats' = CountUnlockAll(stats, t, {first[t]})
    /\ nlocked' = [nlocked EXCEPT ![t] = 0]
    /\ pc' = [pc EXCEPT ![t] = "return"]
    /\ UNCHANGED <<config, receiver, nb_notified, exc, val_, cv_, op, obj, fn, local, ret, timeout, owns, args, first, ncalls>>

\* ~scoped_lock: unlock() on every proxy; nothing is notified
scoped_lock_dtor(t) ==
    /\ pc[t] = "unlock_all"
    /\ mtx_' = UnlockAll(mtx_, t, HeldIdx(t))
    /\ stats' = CountUnlockAll(stats, t, HeldIdx(t))
    /\ nlocked' = [nlocked EXCEPT ![t] = 0]
    /\ pc' = [pc EXCEPT ![t] = "return"]
    /\ UNCHANGED <<config, receiver, nb_notified, exc, val_, cv_, op, obj, fn, local, ret, timeout, owns, args, first, ncalls>>

\* ---- the accessor returns to its caller
Return(t) ==
    /\ pc[t] = "return"
    /\ pc' = [pc EXCEPT ![t] = "idle"]
    /\ op' = [op EXCEPT ![t] = "none"]
    /\ obj' = [obj EXCEPT ![t] = "a"]
    /\ fn' = [fn EXCEPT ![t] = "none"]
    /\ local' = [local EXCEPT ![t] = int_zero]
    /\ ret' = [ret EXCEPT ![t] = FALSE]
    /\ timeout' = [timeout EXCEPT ![t] = FALSE]
    /\ args' = [args EXCEPT ![t] = <<>>]
    /\ first' = [first EXCEPT ![t] = 1]
    /\ stats' = [stats EXCEPT ![t] = [w \in Wrappers |-> no_stats]]
    /\ nb_notified' = [nb_notified EXCEPT ![t] = 0]
    /\ exc' = [exc EXCEPT ![t] = FALSE]
    /\ receiver' = [receiver EXCEPT ![t] = "none"]
    /\ UNCHANGED <<config, objects, owns, nlocked, ncalls>>

\* ---- construction
InitThreads ==
    /\ pc = [t \in Threads |-> "idle"]
    /\ op = [t \in Threads |-> "none"]
    /\ obj = [t \in Threads |-> "a"]
    /\ fn = [t \in Threads |-> "none"]
    /\ local = [t \in Threads |-> int_zero]
    /\ ret = [t \in Threads |-> FALSE]
    /\ timeout = [t \in Threads |-> FALSE]
    /\ owns = [t \in Threads |-> FALSE]
    /\ args = [t \in Threads |-> <<>>]
    /\ first = [t \in Threads |-> 1]
    /\ nlocked = [t \in Threads |-> 0]
    /\ stats = [t \in Threads |-> [w \in Wrappers |-> no_stats]]
    /\ ncalls = [t \in Threads |-> 0]
    /\ nb_notified = [t \in Threads |-> 0]
    /\ exc = [t \in Threads |-> FALSE]
    /\ receiver = [t \in Threads |-> "none"]

\* Mutexed(ValueArgs&&...): mtx_(), val_(args...); no thread holds the new mutex
InitObjects(v) ==
    /\ mtx_ = [w \in Wrappers |-> free_mutex]
    /\ val_ = [w \in Wrappers |-> v]
    /\ cv_ = [w \in Wrappers |-> {}]

\* ---- scopes: where a thread is between the lock and the unlock of an accessor
\* inside user code that may write the value of w
InWriteScope(t, w) ==
    \/ op[t] = "with_locked" /\ obj[t] = w /\ pc[t] \in {"invoke", "invoke_write"}
    \/ op[t] = "locked" /\ obj[t] = w /\ pc[t] \in {"guard", "guard_end"}
    \/ /\ op[t] = "with_all_locked" /\ pc[t] = "invoke_all"
       /\ \E i \in 1..Len(args[t]) : args[t][i].m = w /\ ~args[t][i].is_const

\* inside user code that may read the value of w
InReadScope(t, w) ==
    \/ op[t] \in ReadOps /\ obj[t] = w /\ pc[t] = "read"
    \/ op[t] = "locked_const" /\ obj[t] = w /\ pc[t] \in {"guard", "guard_end"}
    \/ op[t] \in WaitOps /\ obj[t] = w /\ pc[t] = "pred"
    \/ /\ op[t] = "with_all_locked" /\ pc[t] = "invoke_all"
       /\ \E i \in 1..Len(args[t]) : args[t][i].m = w

InScope(t, w) == InWriteScope(t, w) \/ InReadScope(t, w)

\* waiting for the mutex of w
Contending(t, w) ==
    \/ pc[t] \in {"ps_lock", "lock"} /\ obj[t] = w
    \/ pc[t] = "blocked" /\ obj[t] = w /\ t \notin cv_[w]
    \/ pc[t] = "std_lock" /\ args[t][first[t]].m = w

\* ---- Spec: a bounded number of calls of any accessor on Mutexed of any type
RECURSIVE Sum(_, _)
Sum(f, S) == IF S = {} THEN 0 ELSE LET x == CHOOSE y \in S : TRUE
                                   IN f[x] + Sum(f, S \ {x})

Counted(t) == ncalls' = [ncalls EXCEPT ![t] = @ + 1]

Init ==
    /\ shared_lockable \in [Wrappers -> BOOLEAN]
    /\ has_cv \in [Wrappers -> BOOLEAN]
    /\ spy = [w \in Wrappers |-> FALSE]
    /\ InitObjects(flagged_int)
    /\ InitThreads

Steps(t) ==
    \/ possibly_shared_lock_ctor(t)
    \/ lock_ctor(t)
    \/ invoke_const(t)
    \/ invoke_read(t)
    \/ invoke_write(t)
    \/ use_ref(t)
    \/ lock_guard_dtor(t)
    \/ Lock_dtor_unlock(t)
    \/ defer_notify_dtor(t)
    \/ possibly_shared_lock_dtor(t)
    \/ pred(t)
    \/ cv_wait(t)
    \/ cv_relock(t)
    \/ spurious_wakeup(t)
    \/ timed_out(t)
    \/ std_lock_block(t)
    \/ std_lock_try(t)
    \/ std_lock_back_off(t)
    \/ invoke_all(t)
    \/ scoped_lock_dtor(t)
    \/ Return(t)

Call(t) ==
    /\ Sum(ncalls, Threads) < MaxCalls
    /\ Counted(t)
    /\ \/ \E w \in Wrappers : with_locked_const(t, w)
       \/ \E w \in Wrappers : with_locked(t, w, "set")
       \/ \E w \in Wrappers : get_copy(t, w)
       \/ \E w \in Wrappers : locked(t, w, "set")
       \/ \E w \in Wrappers : locked_const(t, w)
       \/ \E w \in Wrappers : const_locked(t, w)
       \/ \E w \in Wrappers : wait(t, w)
       \/ \E w \in Wrappers : wait_for(t, w)
       \/ \E w \in Wrappers : wait_until(t, w)
       \/ \E as \in ArgLists : with_all_locked(t, as, "set")

Next == \E t \in Threads : Call(t) \/ Steps(t)

Spec == Init /\ [][Next]_vars

InitCounter ==
    /\ shared_lockable = [w \in Wrappers |-> TRUE]
    /\ has_cv = [w \in Wrappers |-> FALSE]
    /\ spy = [w \in Wrappers |-> FALSE]
    /\ InitObjects(int_zero)
    /\ InitThreads

\* one iteration of the loop of incrementValue
incrementValue(t) ==
    /\ ncalls[t] < Iterations
    /\ with_locked(t, "a", "increment")
    /\ Counted(t)

NextCounter ==
    \E t \in Threads :
        \/ incrementValue(t)
        \/ lock_ctor(t)
        \/ invoke_read(t)
        \/ invoke_write(t)
        \/ lock_guard_dtor(t)
        \/ defer_notify_dtor(t)
        \/ Return(t)

SpecCounter == InitCounter /\ [][NextCounter]_vars

\* every thread has run its loop to the end and was joined
Joined == \A t \in Threads : pc[t] = "idle" /\ ncalls[t] = Iterations

\* C2: when NumThreads threads have each made Iterations calls of
\* with_locked(++value) on a Mutexed<int> that started at 0, the value is
\* NumThreads * Iterations: no increment is lost, whatever the interleaving.
NoLostUpdate == Joined => val_["a"].val = NumThreads * Iterations

\* all the threads are joined and every increment is in the value
CounterJoined == Joined /\ val_["a"].val = NumThreads * Iterations

\* ---- SpecGuards: the guard accessors, and what the caller can do with the
\* ---- possibly_shared_lock that locked_const() hands out
\* std::shared_lock<M>::unlock() / std::unique_lock<M>::unlock(), called by the
\* owner of the tuple on its live read guard
possibly_shared_lock_unlock(t) ==
    /\ op[t] = "locked_const"
    /\ pc[t] \in {"guard", "guard_end"}
    /\ owns[t]
    /\ mtx_' = UnlockPossiblyShared(obj[t], t)
    /\ stats' = CountUnlockPossiblyShared(t, obj[t])
    /\ owns' = [owns EXCEPT ![t] = FALSE]
    /\ UNCHANGED <<config, receiver, nb_notified, exc, val_, cv_, pc, op, obj, fn, local, ret, timeout, ncalls, all_locker>>

InitGuards ==
    /\ shared_lockable \in {[w \in Wrappers |-> b] : b \in BOOLEAN}
    /\ has_cv \in {[w \in Wrappers |-> b] : b \in BOOLEAN}
    /\ spy = [w \in Wrappers |-> FALSE]
    /\ InitObjects(flagged_int)
    /\ InitThreads

NextGuards ==
    \E t \in Threads :
        \/ locked(t, "a", "set") /\ UNCHANGED ncalls
        \/ locked_const(t, "a") /\ UNCHANGED ncalls
        \/ const_locked(t, "a") /\ UNCHANGED ncalls
        \/ lock_ctor(t)
        \/ possibly_shared_lock_ctor(t)
        \/ use_ref(t)
        \/ possibly_shared_lock_unlock(t)
        \/ Lock_dtor_unlock(t)
        \/ defer_notify_dtor(t)
        \/ possibly_shared_lock_dtor(t)
        \/ Return(t)

SpecGuards == InitGuards /\ [][NextGuards]_vars

\* the tuple returned by locked() / locked_const() is alive in the caller
WriteGuardAlive(t) == op[t] = "locked" /\ pc[t] \in {"guard", "guard_end"}
ReadGuardAlive(t) == op[t] = "locked_const" /\ pc[t] \in {"guard", "guard_end"}

InitSpy ==
    /\ shared_lockable \in {[w \in Wrappers |-> b] : b \in BOOLEAN}
    /\ has_cv \in {[w \in Wrappers |-> b] : b \in BOOLEAN}
    /\ spy = [w \in Wrappers |-> TRUE]
    /\ InitObjects(flagged_int)
    /\ InitThreads

NextSpy ==
    \E t \in Threads :
        \/ with_locked_const(t, "a") /\ UNCHANGED ncalls
        \/ get_copy(t, "a") /\ UNCHANGED ncalls
        \/ locked_const(t, "a") /\ UNCHANGED ncalls
        \/ const_locked(t, "a") /\ UNCHANGED ncalls
        \/ with_locked(t, "a", "set") /\ UNCHANGED ncalls
        \/ locked(t, "a", "set") /\ UNCHANGED ncalls
        \/ possibly_shared_lock_ctor(t)
        \/ lock_ctor(t)
        \/ invoke_const(t)
        \/ invoke_read(t)
        \/ invoke_write(t)
        \/ use_ref(t)
        \/ lock_guard_dtor(t)
        \/ Lock_dtor_unlock(t)
        \/ defer_notify_dtor(t)
        \/ possibly_shared_lock_dtor(t)
        \/ Return(t)

SpecSpy == InitSpy /\ [][NextSpy]_vars

ReadAccessors == ReadOps \cup {"locked_const"}
WriteAccessors == {"with_locked", "locked"}

Counted1(b) == IF b THEN 1 ELSE 0

\* C4: on a shared_lockable M a read accessor (const with_locked, get_copy,
\* locked_const, const locked) makes exactly one lock_shared, then exactly one
\* unlock_shared, and no lock, try_lock, unlock or try_lock_shared; it never holds
\* the mutex exclusively.
ReadAccessorLocksSharedOnce ==
    \A t \in Threads :
        (op[t] \in ReadAccessors /\ shared_lockable[obj[t]]) =>
            LET s == stats[t][obj[t]] IN
                /\ s.nb_locked = 0 /\ s.nb_try_locked = 0 /\ s.nb_unlocked = 0
                /\ s.nb_try_locked_shared = 0
                /\ ~HoldsExclusive(t, obj[t])
                /\ s.nb_locked_shared = Counted1(pc[t] # "ps_lock")
                /\ s.nb_unlocked_shared = Counted1(pc[t] = "return")

\* a read accessor on a shared_lockable spy is about to return, while another
\* reader is still inside its scope
ReadAccessorReturns ==
    \E t \in Threads : \E u \in Threads \ {t} :
        /\ op[t] \in ReadAccessors /\ shared_lockable[obj[t]] /\ pc[t] = "return"
        /\ stats[t][obj[t]].nb_locked_shared = 1
        /\ stats[t][obj[t]].nb_unlocked_shared = 1
        /\ InReadScope(u, obj[t])

\* C5: a write accessor (non-const with_locked, non-const locked()) makes exactly one
\* lock, which it holds when the functor runs or the guard is handed out, then
\* exactly one unlock when the scope ends, and no try_lock, lock_shared,
\* try_lock_shared or unlock_shared, also on a shared_lockable M.
WriteAccessorLocksExclusiveOnce ==
    \A t \in Threads :
        op[t] \in WriteAccessors =>
            LET s == stats[t][obj[t]] IN
                /\ s.nb_try_locked = 0 /\ s.nb_locked_shared = 0
                /\ s.nb_try_locked_shared = 0 /\ s.nb_unlocked_shared = 0
                /\ s.nb_locked = Counted1(pc[t] # "lock")
                /\ s.nb_unlocked = Counted1(pc[t] \in {"notify", "return"})
                /\ InWriteScope(t, obj[t]) => HoldsExclusive(t, obj[t])

\* a write accessor on a shared_lockable spy is about to return
WriteAccessorReturns ==
    \E t \in Threads :
        /\ op[t] \in WriteAccessors /\ shared_lockable[obj[t]] /\ pc[t] = "return"
        /\ stats[t][obj[t]].nb_locked = 1
        /\ stats[t][obj[t]].nb_unlocked = 1

\* ---- SpecSingle: every single-wrapper accessor, the waiting functions included,
\* ---- on one Mutexed<flagged_int, M, has_cv>, called again and again
InitSingle ==
    /\ shared_lockable \in {[w \in Wrappers |-> b] : b \in BOOLEAN}
    /\ has_cv = [w \in Wrappers |-> TRUE]
    /\ spy = [w \in Wrappers |-> FALSE]
    /\ InitObjects(flagged_int)
    /\ InitThreads

NextSingle ==
    \E t \in Threads :
        \/ with_locked_const(t, "a") /\ UNCHANGED ncalls
        \/ get_copy(t, "a") /\ UNCHANGED ncalls
        \/ locked_const(t, "a") /\ UNCHANGED ncalls
        \/ with_locked(t, "a", "set") /\ UNCHANGED ncalls
        \/ locked(t, "a", "set") /\ UNCHANGED ncalls
        \/ wait(t, "a") /\ UNCHANGED ncalls
        \/ wait_for(t, "a") /\ UNCHANGED ncalls
        \/ wait_until(t, "a") /\ UNCHANGED ncalls
        \/ possibly_shared_lock_ctor(t)
        \/ lock_ctor(t)
        \/ invoke_const(t)
        \/ invoke_read(t)
        \/ invoke_write(t)
        \/ use_ref(t)
        \/ lock_guard_dtor(t)
        \/ Lock_dtor_unlock(t)
        \/ defer_notify_dtor(t)
        \/ possibly_shared_lock_dtor(t)
        \/ pred(t)
        \/ cv_wait(t)
        \/ cv_relock(t)
        \/ spurious_wakeup(t)
        \/ timed_out(t)
        \/ Return(t)

SpecSingle == InitSingle /\ [][NextSingle]_vars

NotifyAfterUnlock ==
    \A t \in Threads : pc[t] = "notify" => ~Holds(t, obj[t])

\* a writer is about to notify a blocked waiter, and nobody holds the mutex
NotifierMeetsWaiter ==
    \E t \in Threads :
        /\ pc[t] = "notify" /\ has_cv[obj[t]]
        /\ cv_[obj[t]] # {}
        /\ mtx_[obj[t]] = free_mutex

\* C10: wait_for / wait_until return the value of the last evaluation of the
\* predicate, made under the lock: true exactly when it was true (also after a
\* timeout), false only after the time bound elapsed with the predicate still
\* false; the caller holds no lock once the call has returned.
TimedWaitReturnsPredicate ==
    \A t \in Threads :
        op[t] = "wait_until" =>
            /\ pc[t] = "ps_unlock" =>
                 /\ HoldsPossiblyShared(t, obj[t])
                 /\ ret[t] = was_initialized(val_[obj[t]])
            /\ pc[t] \in {"ps_unlock", "return"} => (~ret[t] => timeout[t])
            /\ pc[t] = "return" => ~Holds(t, obj[t])

\* a timed wait returns true although its time bound elapsed
TimedOutButTrue ==
    \E t \in Threads :
        op[t] = "wait_until" /\ pc[t] = "return" /\ timeout[t] /\ ret[t]

\* ---- SpecSync: test_sync; thread 1 is async_compute, the others are
\* async_after_compute; the writer also uses the guard of locked()
Writer == 1
Waiters == Threads \ {Writer}

InitSync ==
    /\ \E b \in BOOLEAN : shared_lockable = [w \in Wrappers |-> b]
    /\ spy = [w \in Wrappers |-> FALSE]
    /\ has_cv = [w \in Wrappers |-> TRUE]
    /\ InitObjects(flagged_int)
    /\ InitThreads

CallSync(t) ==
    /\ ncalls[t] < MaxCalls
    /\ Counted(t)
    /\ \/ t = Writer /\ with_locked(t, "a", "set")
       \/ t = Writer /\ locked(t, "a", "set")
       \/ t \in Waiters /\ wait(t, "a")
       \/ t \in Waiters /\ get_copy(t, "a")

\* every step of a started call but the spurious wake-up, which nothing forces
ProgressSync(t) ==
    \/ possibly_shared_lock_ctor(t)
    \/ lock_ctor(t)
    \/ invoke_const(t)
    \/ invoke_read(t)
    \/ invoke_write(t)
    \/ use_ref(t)
    \/ lock_guard_dtor(t)
    \/ Lock_dtor_unlock(t)
    \/ defer_notify_dtor(t)
    \/ possibly_shared_lock_dtor(t)
    \/ pred(t)
    \/ cv_wait(t)
    \/ cv_relock(t)
    \/ Return(t)

NextSync == \E t \in Threads : CallSync(t) \/ ProgressSync(t) \/ spurious_wakeup(t)

\* a running thread is scheduled again; a mutex that stays free is acquired
FairSync == \A t \in Threads : WF_vars(ProgressSync(t))

SpecSync == InitSync /\ [][NextSync]_vars /\ FairSync

\* C8: once a write scope has made the predicate true (it stays true), every wait(p)
\* in progress on the wrapper eventually returns, for an exclusive-only and for a
\* shared-capable M and for every interleaving of the waiter with the writer.
NoLostWakeup ==
    \A t \in Threads :
        (op[t] = "wait" /\ was_initialized(val_["a"])) ~> (op[t] = "wait" /\ pc[t] = "return")

\* the writer has written and unlocked, a waiter blocked before the write is still
\* on the condition variable
WaiterBlockedAfterWrite ==
    \E t \in Waiters :
        /\ op[t] = "wait" /\ pc[t] = "blocked" /\ t \in cv_["a"]
        /\ pc[Writer] = "notify"
        /\ was_initialized(val_["a"])

\* ---- SpecFromLocked: stdMutex_CV_sync_from_locked; thread 1 is the main thread,
\* the others run to_do_after; ncalls[t] is the statement the thread has reached
InitFromLocked ==
    /\ \E b \in BOOLEAN : shared_lockable = [w \in Wrappers |-> b]
    /\ spy = [w \in Wrappers |-> FALSE]
    /\ has_cv = [w \in Wrappers |-> TRUE]
    /\ InitObjects(flagged_int)
    /\ InitThreads

to_do_after(t) ==
    /\ t \in Waiters
    /\ Counted(t)
    /\ \/ ncalls[t] = 0 /\ wait(t, "a")
       \/ ncalls[t] = 1 /\ locked(t, "a", "times3")

change_and_notify(t) ==
    /\ t = Writer
    /\ Counted(t)
    /\ ncalls[t] = 0 /\ locked(t, "a", "set")

NextFromLocked ==
    \E t \in Threads :
        \/ to_do_after(t)
        \/ change_and_notify(t)
        \/ possibly_shared_lock_ctor(t)
        \/ lock_ctor(t)
        \/ use_ref(t)
        \/ Lock_dtor_unlock(t)
        \/ defer_notify_dtor(t)
        \/ possibly_shared_lock_dtor(t)
        \/ pred(t)
        \/ cv_wait(t)
        \/ cv_relock(t)
        \/ spurious_wakeup(t)
        \/ Return(t)

SpecFromLocked == InitFromLocked /\ [][NextFromLocked]_vars

\* to_do_after.join() has returned and the main thread has left its block
JoinedFromLocked ==
    /\ \A t \in Threads : pc[t] = "idle"
    /\ ncalls[Writer] = 1
    /\ \A t \in Waiters : ncalls[t] = 2

\* C9: wait(p) evaluates p only while holding the mutex in read mode and returns only
\* after such an evaluation yielded true; a wake-up, signalled or spurious, leads
\* back to the lock and to p and never out of the wait; once wait has returned the
\* caller holds no lock, so its locked() does not wait for itself, and after the
\* writer's set(2) each waiter multiplies by 3 (final val 6 with one waiter).
WaitReturnsOnTruePredicate ==
    /\ [](\A t \in Threads :
            /\ op[t] = "wait" =>
                 /\ pc[t] = "pred" => HoldsPossiblyShared(t, obj[t])
                 /\ pc[t] = "ps_unlock" =>
                      /\ HoldsPossiblyShared(t, obj[t])
                      /\ ret[t] /\ was_initialized(val_[obj[t]])
                 /\ pc[t] = "return" => ret[t] /\ ~Holds(t, obj[t])
            /\ pc[t] = "lock" => ~Holds(t, obj[t]))
    /\ [][\A t \in Threads :
            (pc[t] = "blocked" /\ pc'[t] # "blocked") =>
                /\ pc'[t] = "pred"
                /\ t \in mtx_'[obj[t]].owner \cup mtx_'[obj[t]].sharers]_vars
    /\ [](JoinedFromLocked => val_["a"].val = 2 * 3 ^ (NumThreads - 1))

\* the waiter, back from wait, holds the write guard of locked() on the written value
WaiterOpensGuardAfterWait ==
    \E t \in Waiters :
        /\ op[t] = "locked" /\ fn[t] = "times3" /\ pc[t] = "guard"
        /\ HoldsExclusive(t, "a")
        /\ val_["a"] = [val |-> 2, initialized |-> TRUE]

\* ---- SpecExits: every accessor on two Mutexed of the same M, each with or without
\* a condition variable; functors and predicates may exit with an exception
InitExits ==
    /\ \E b \in BOOLEAN : shared_lockable = [w \in Wrappers |-> b]
    /\ spy = [w \in Wrappers |-> FALSE]
    /\ has_cv \in [Wrappers -> BOOLEAN]
    /\ InitObjects(flagged_int)
    /\ InitThreads

\* the functors and predicates of SpecExits: one that returns, one that throws
ExitFunctors == {"set", "throw"}

\* thread 1 makes every call, with functors that return or throw
CallExits(t) ==
    /\ t = Writer
    /\ UNCHANGED ncalls
    /\ \/ \E w \in Wrappers : \E f \in {"read", "throw"} :
            Enter(t, w, "with_locked_const", f, "ps_lock")
       \/ \E w \in Wrappers : \E f \in ExitFunctors : with_locked(t, w, f)
       \/ \E w \in Wrappers : get_copy(t, w)
       \/ \E w \in Wrappers : \E f \in ExitFunctors : locked(t, w, f)
       \/ \E w \in Wrappers : locked_const(t, w)
       \/ \E w \in Wrappers : wait(t, w)
       \/ \E w \in Wrappers : wait_until(t, w)
       \/ \E w \in Wrappers : has_cv[w] /\ Enter(t, w, "wait", "throw", "ps_lock")
       \/ \E w \in Wrappers : has_cv[w] /\ Enter(t, w, "wait_until", "throw", "ps_lock")
       \/ \E as \in ArgLists : \E f \in ExitFunctors : with_all_locked(t, as, f)

\* the other threads wait on, read and write the same Mutexed
CallBeside(t) ==
    /\ t \in Waiters
    /\ UNCHANGED ncalls
    /\ \/ \E w \in Wrappers : wait(t, w)
       \/ \E w \in Wrappers : with_locked(t, w, "set")

NextExits == \E t \in Threads : CallExits(t) \/ CallBeside(t) \/ Steps(t)

SpecExits == InitExits /\ [][NextExits]_vars

\* C11 as stated: a call has signalled the condition variable exactly when it is a
\* write scope of a waiting-enabled wrapper that exited normally.
SignalIffNormalWriteExit ==
    \A t \in Threads :
        pc[t] = "return" =>
            (nb_notified[t] > 0 <=>
                (op[t] \in WriteAccessors /\ has_cv[obj[t]] /\ ~exc[t]))

\* C11, corrected: a call signals the condition variable exactly once, at its exit,
\* when it is a single-wrapper write scope (non-const with_locked or the guard of
\* non-const locked()) of a waiting-enabled wrapper, whether it exits normally or by
\* an exception; no other call and no other moment of a call signals.
SignalIffWriteScopeExit ==
    \A t \in Threads :
        nb_notified[t] =
            IF pc[t] = "return" /\ op[t] \in WriteAccessors /\ has_cv[obj[t]] THEN 1 ELSE 0

\* the guard of locked() was destroyed by an exception and the condition variable,
\* on which a thread was blocked, has been signalled
SignalledOnAbnormalExit ==
    \E t \in Threads :
        /\ pc[t] = "return" /\ op[t] = "locked" /\ exc[t]
        /\ nb_notified[t] = 1
        /\ \E u \in Threads \ {t} : pc[u] = "blocked" /\ obj[u] = obj[t] /\ u \notin cv_[obj[t]]

\* ---- SpecThrow: every thread makes a call whose functor or predicate throws,
\* catches the exception and calls with_locked(v -> v = 7) on the same Mutexed;
\* ncalls[t] is the statement the thread has reached
InitThrow ==
    /\ \E b \in BOOLEAN : shared_lockable = [w \in Wrappers |-> b]
    /\ spy = [w \in Wrappers |-> FALSE]
    /\ \E b \in BOOLEAN : has_cv = [w \in Wrappers |-> b]
    /\ InitObjects(flagged_int)
    /\ InitThreads

throwing_call(t) ==
    /\ ncalls[t] = 0
    /\ Counted(t)
    /\ \/ Enter(t, "a", "with_locked_const", "throw", "ps_lock")
       \/ with_locked(t, "a", "throw")
       \/ has_cv["a"] /\ Enter(t, "a", "wait", "throw", "ps_lock")
       \/ has_cv["a"] /\ Enter(t, "a", "wait_until", "throw", "ps_lock")
       \/ \E as \in {l \in ArgLists : l[1].m = "a"} : with_all_locked(t, as, "throw")

call_after_catch(t) ==
    /\ ncalls[t] = 1
    /\ Counted(t)
    /\ with_locked(t, "a", "assign7")

NextThrow ==
    \E t \in Threads :
        \/ throwing_call(t)
        \/ call_after_catch(t)
        \/ possibly_shared_lock_ctor(t)
        \/ lock_ctor(t)
        \/ invoke_const(t)
        \/ invoke_read(t)
        \/ invoke_write(t)
        \/ lock_guard_dtor(t)
        \/ defer_notify_dtor(t)
        \/ possibly_shared_lock_dtor(t)
        \/ pred(t)
        \/ std_lock_block(t)
        \/ std_lock_try(t)
        \/ std_lock_back_off(t)
        \/ invoke_all(t)
        \/ scoped_lock_dtor(t)
        \/ Return(t)

SpecThrow == InitThrow /\ [][NextThrow]_vars

\* every thread has caught its exception and returned from its second call
JoinedThrow == \A t \in Threads : pc[t] = "idle" /\ ncalls[t] = 2

\* C12: an exception of the functor of const or non-const with_locked or of
\* with_all_locked, or of a wait predicate, reaches the caller, and by then the call
\* holds no mutex; the same thread then calls with_locked(v -> v = 7) on the same
\* wrapper, never waits for itself, the program never gets stuck, and the value is 7.
ExceptionLeavesMutexFree ==
    /\ \A t \in Threads :
         /\ pc[t] = "return" /\ Throws(fn[t]) =>
              /\ exc[t]
              /\ \A w \in Wrappers : ~Holds(t, w)
         /\ pc[t] = "lock" => ~Holds(t, obj[t])
         /\ pc[t] = "unlock" /\ fn[t] = "assign7" => val_[obj[t]].val = 7
    /\ JoinedThrow => val_["a"].val = 7
    /\ JoinedThrow \/ ENABLED NextThrow

\* a thread that caught the exception of its first call is inside
\* with_locked(v -> v = 7) on the same wrapper and has written 7
WritesAfterCatch ==
    \E t \in Threads :
        /\ ncalls[t] = 2 /\ op[t] = "with_locked" /\ fn[t] = "assign7"
        /\ pc[t] = "unlock" /\ val_["a"].val = 7

\* C13: when the functor of the non-const with_locked throws on a waiting-enabled
\* wrapper, the call still runs notify_all, once, and only after it has unlocked
\* the mutex.
NotifiesOnException ==
    \A t \in Threads :
        op[t] = "with_locked" /\ exc[t] /\ has_cv[obj[t]] =>
            /\ pc[t] \in {"unlock", "notify", "return"}
            /\ pc[t] = "unlock" => HoldsExclusive(t, obj[t]) /\ nb_notified[t] = 0
            /\ pc[t] = "notify" => ~Holds(t, obj[t]) /\ nb_notified[t] = 0
            /\ pc[t] = "return" => ~Holds(t, obj[t]) /\ nb_notified[t] = 1

\* with_locked is left by an exception and its notify_all has woken a waiter
ThrowingWriterWokeWaiter ==
    \E t \in Threads :
        /\ op[t] = "with_locked" /\ exc[t] /\ pc[t] = "return"
        /\ has_cv[obj[t]] /\ nb_notified[t] = 1
        /\ \E u \in Threads \ {t} :
             op[u] \in WaitOps /\ obj[u] = obj[t] /\ pc[u] = "blocked" /\ u \notin cv_[obj[t]]

\* ---- SpecAll: concurrent with_all_locked calls on two Mutexed, each of any M,
\* listed in any order and with any intent
InitAll ==
    /\ shared_lockable \in [Wrappers -> BOOLEAN]
    /\ spy = [w \in Wrappers |-> FALSE]
    /\ \E b \in BOOLEAN : has_cv = [w \in Wrappers |-> b]
    /\ InitObjects(flagged_int)
    /\ InitThreads

StepsAll(t) ==
    \/ std_lock_block(t)
    \/ std_lock_try(t)
    \/ std_lock_back_off(t)
    \/ invoke_all(t)
    \/ scoped_lock_dtor(t)
    \/ Return(t)

NextAll ==
    \E t \in Threads :
        \/ \E as \in ArgLists : with_all_locked(t, as, "set") /\ UNCHANGED ncalls
        \/ StepsAll(t)

SpecAll == InitAll /\ [][NextAll]_vars

\* the callers that have not returned yet
Unfinished == {t \in Threads : pc[t] # "idle"}

\* C14: whatever the orders and intents in which concurrent with_all_locked calls
\* list the wrappers, some unfinished caller can always take a step: the callers are
\* never all blocked on mutexes held by one another.
WithAllLockedNeverDeadlocks ==
    Unfinished # {} => \E t \in Unfinished : ENABLED StepsAll(t)

\* two callers list the two wrappers in swapped orders, both for writing; one holds
\* its first wrapper and the other one waits for it
SwappedOrdersContend ==
    \E t \in Threads : \E u \in Threads \ {t} :
        /\ Len(args[t]) = 2 /\ Len(args[u]) = 2
        /\ args[t][1].m = args[u][2].m /\ args[t][2].m = args[u][1].m
        /\ \A i \in 1..2 : ~ProxyShared(args[t][i]) /\ ~ProxyShared(args[u][i])
        /\ pc[t] = "try_lock" /\ ProxyHolds(args[t][1], t)
        /\ pc[u] = "std_lock" /\ first[u] = 2

\* C15: with_all_locked runs f only while its thread holds the mutex of every
\* argument, each in the mode of its intent, still holds them all when f has
\* finished, and holds none of them once the call has returned.
InvokesWithAllHeld ==
    \A t \in Threads :
        /\ pc[t] \in {"invoke_all", "unlock_all"} =>
             \A i \in 1..Len(args[t]) : ProxyHolds(args[t][i], t)
        /\ pc[t] \in {"return", "idle"} => \A w \in Wrappers : ~Holds(t, w)

\* f runs with one wrapper held shared and the other exclusively, while another
\* caller is inside f sharing the first wrapper
InvokesWithBothModesHeld ==
    \E t \in Threads : \E u \in Threads \ {t} :
        /\ pc[t] = "invoke_all" /\ Len(args[t]) = 2
        /\ ProxyShared(args[t][1]) /\ ~ProxyShared(args[t][2])
        /\ HoldsShared(t, args[t][1].m) /\ HoldsExclusive(t, args[t][2].m)
        /\ pc[u] = "invoke_all" /\ HoldsShared(u, args[t][1].m)

\* ---- SpecAllSpy: the WithAllLocked test, a(42) and b(8) behind lockable_spy
\* mutexes of any M, called concurrently with every argument list
InitAllSpy ==
    /\ shared_lockable \in [Wrappers -> BOOLEAN]
    /\ spy = [w \in Wrappers |-> TRUE]
    /\ has_cv = [w \in Wrappers |-> FALSE]
    /\ mtx_ = [w \in Wrappers |-> free_mutex]
    /\ val_ = [w \in Wrappers |-> [val |-> IF w = "a" THEN 42 ELSE 8, initialized |-> FALSE]]
    /\ cv_ = [w \in Wrappers |-> {}]
    /\ InitThreads

NextAllSpy ==
    \E t \in Threads :
        \/ \E as \in ArgLists : with_all_locked(t, as, "assign10") /\ UNCHANGED ncalls
        \/ std_lock_block(t)
        \/ std_lock_try(t)
        \/ std_lock_back_off(t)
        \/ invoke_all(t)
        \/ scoped_lock_dtor(t)
        \/ Return(t)

SpecAllSpy == InitAllSpy /\ [][NextAllSpy]_vars

\* lock_stats::has_been_unique_locked / has_been_shared_locked, and the unlocks
has_been_unique_locked(st) == st.nb_locked > 0 \/ st.nb_try_locked > 0
has_been_shared_locked(st) == st.nb_locked_shared > 0 \/ st.nb_try_locked_shared > 0
UniqueCalls(st) == st.nb_locked + st.nb_try_locked + st.nb_unlocked
SharedCalls(st) == st.nb_locked_shared + st.nb_try_locked_shared + st.nb_unlocked_shared

\* C16: with_all_locked calls only lock/try_lock/unlock on a wrapper passed mutable
\* and on a const wrapper of an exclusive-only M, and only lock_shared/
\* try_lock_shared/unlock_shared on a const wrapper of a shared-capable M; f runs
\* after an acquisition in that mode, writes (10) the mutable wrappers only, and
\* what it read from a const first argument (42 from a) is still that value.
ModePerArgument ==
    \A t \in Threads : \A i \in 1..Len(args[t]) :
        LET a == args[t][i]
            st == stats[t][a.m]
            shared == a.is_const /\ shared_lockable[a.m]
        IN /\ shared => UniqueCalls(st) = 0
           /\ ~shared => SharedCalls(st) = 0
           /\ pc[t] \in {"invoke_all", "unlock_all"} =>
                IF shared THEN has_been_shared_locked(st) ELSE has_been_unique_locked(st)
           /\ pc[t] = "unlock_all" =>
                /\ ~a.is_const => val_[a.m].val = 10
                /\ (i = 1 /\ a.is_const) => local[t] = val_[a.m]

\* with_all_locked(f, std::cref(a), b) on a shared-capable a: f saw 42 and set b
\* to 10; a's spy counted shared calls only, b's spy exclusive calls only
CrefSharedMutableExclusive ==
    \E t \in Threads :
        /\ pc[t] = "unlock_all"
        /\ args[t] = <<[m |-> "a", is_const |-> TRUE], [m |-> "b", is_const |-> FALSE]>>
        /\ shared_lockable["a"]
        /\ local[t].val = 42 /\ val_["a"].val = 42 /\ val_["b"].val = 10
        /\ has_been_shared_locked(stats[t]["a"]) /\ ~has_been_unique_locked(stats[t]["a"])
        /\ has_been_unique_locked(stats[t]["b"]) /\ ~has_been_shared_locked(stats[t]["b"])

\* ---- SpecAllWaiters: thread 1 writes waiting-enabled Mutexed through
\* with_all_locked while the other threads wait on them
InitAllWaiters ==
    /\ \E b \in BOOLEAN : shared_lockable = [w \in Wrappers |-> b]
    /\ spy = [w \in Wrappers |-> FALSE]
    /\ has_cv = [w \in Wrappers |-> TRUE]
    /\ InitObjects(flagged_int)
    /\ InitThreads

NextAllWaiters ==
    \E t \in Threads :
        \/ /\ t = Writer
           /\ \E as \in ArgLists : with_all_locked(t, as, "set") /\ UNCHANGED ncalls
        \/ /\ t \in Waiters
           /\ \E w \in Wrappers : wait(t, w) /\ UNCHANGED ncalls
        \/ std_lock_block(t)
        \/ std_lock_try(t)
        \/ std_lock_back_off(t)
        \/ invoke_all(t)
        \/ scoped_lock_dtor(t)
        \/ possibly_shared_lock_ctor(t)
        \/ pred(t)
        \/ cv_wait(t)
        \/ spurious_wakeup(t)
        \/ cv_relock(t)
        \/ possibly_shared_lock_dtor(t)
        \/ Return(t)

SpecAllWaiters == InitAllWaiters /\ [][NextAllWaiters]_vars

\* C17: a with_all_locked call never calls notify_all, not even on a waiting-enabled
\* wrapper it locked exclusively and wrote: none of its steps takes a thread off a
\* condition variable.
WithAllLockedNeverNotifies ==
    /\ [](\A t \in Threads : op[t] = "with_all_locked" => nb_notified[t] = 0)
    /\ [][\A t \in Threads :
            (op[t] = "with_all_locked" /\ pc'[t] # pc[t]) => cv_' = cv_]_vars

\* with_all_locked has written a waiting-enabled wrapper, locked exclusively, and
\* returned; a waiter whose predicate is now true is still blocked on its
\* condition variable
WaiterNotWokenByWithAllLocked ==
    \E t \in Threads : \E u \in Threads \ {t} :
        /\ op[t] = "with_all_locked" /\ pc[t] = "return"
        /\ \E i \in 1..Len(args[t]) : args[t][i].m = obj[u] /\ ~args[t][i].is_const
        /\ op[u] = "wait" /\ pc[u] = "blocked" /\ u \in cv_[obj[u]]
        /\ was_initialized(val_[obj[u]])

\* ---- SpecReads: every single-wrapper accessor on one waiting-enabled Mutexed, the
\* read functors and the wait predicates returning or throwing
InitReads ==
    /\ \E b \in BOOLEAN : shared_lockable = [w \in Wrappers |-> b]
    /\ spy = [w \in Wrappers |-> FALSE]
    /\ has_cv = [w \in Wrappers |-> TRUE]
    /\ InitObjects(flagged_int)
    /\ InitThreads

CallReads(t) ==
    /\ UNCHANGED ncalls
    /\ \/ \E f \in {"read", "throw"} : Enter(t, "a", "with_locked_const", f, "ps_lock")
       \/ get_copy(t, "a")
       \/ locked_const(t, "a")
       \/ const_locked(t, "a")
       \/ \E f \in {"was_initialized", "throw"} : Enter(t, "a", "wait", f, "ps_lock")
       \/ \E f \in {"was_initialized", "throw"} : Enter(t, "a", "wait_until", f, "ps_lock")
       \/ wait_for(t, "a")
       \/ with_locked(t, "a", "set")

NextReads ==
    \E t \in Threads :
        \/ CallReads(t)
        \/ possibly_shared_lock_ctor(t)
        \/ lock_ctor(t)
        \/ invoke_const(t)
        \/ invoke_read(t)
        \/ invoke_write(t)
        \/ use_ref(t)
        \/ lock_guard_dtor(t)
        \/ defer_notify_dtor(t)
        \/ possibly_shared_lock_dtor(t)
        \/ pred(t)
        \/ cv_wait(t)
        \/ spurious_wakeup(t)
        \/ timed_out(t)
        \/ cv_relock(t)
        \/ Return(t)

SpecReads == InitReads /\ [][NextReads]_vars

\* C18: const with_locked, get_copy, locked_const / const locked and its read guard,
\* wait, wait_for and wait_until never call notify_all, whether they return or
\* throw: none of their steps takes another thread off the condition variable.
ReadAccessNeverNotifies ==
    /\ [](\A t \in Threads : op[t] \in ReadAccessors \cup WaitOps => nb_notified[t] = 0)
    /\ [][\A t \in Threads :
            (op[t] \in ReadAccessors \cup WaitOps /\ pc'[t] # pc[t]) =>
                \A w \in Wrappers : cv_[w] \ {t} \subseteq cv_'[w]]_vars

\* a read guard has been destroyed while another thread stays blocked on the
\* condition variable of the same wrapper
ReadGuardGoneWaiterBlocked ==
    \E t \in Threads : \E u \in Threads \ {t} :
        /\ op[t] = "locked_const" /\ pc[t] = "return"
        /\ op[u] \in WaitOps /\ pc[u] = "blocked" /\ obj[u] = obj[t] /\ u \in cv_[obj[u]]

\* ---- the two overloads of with_locked and the call expressions that select them
\* the parameter a functor declares: "read" takes T const&, "copy" takes T by value,
\* the writing functors take T&
ParamOf(f) ==
    CASE f = "read" -> "T const&"
      [] f = "copy" -> "T"
      [] OTHER -> "T&"

\* concept invokable_with<F, A>: std::invoke(f, a) is well-formed for `A a`, an
\* lvalue that is const only when A is T const&
invokable_with(f, A) == ParamOf(f) = "T&" => A \in {"T&", "T"}

\* requires-clause of with_locked(F&&) const; T is copy constructible
ConstOverloadViable(f) ==
    invokable_with(f, "T const&") \/ (invokable_with(f, "T") /\ TRUE)

\* requires-clause of with_locked(F&&); a non-const member needs a non-const object
MutableOverloadViable(is_const, f) == ~is_const /\ invokable_with(f, "T&")

\* the call is well-formed: an overload is viable and its body compiles (the const
\* overload passes T const& to f)
WellFormed(is_const, f) ==
    \/ MutableOverloadViable(is_const, f)
    \/ ConstOverloadViable(f) /\ invokable_with(f, "T const&")

\* overload resolution: with both overloads viable the object is not const, and the
\* non-const member, which binds it without a qualification conversion, is chosen
with_locked_overload(is_const, f) ==
    IF MutableOverloadViable(is_const, f) THEN "with_locked" ELSE "with_locked_const"

\* the call expression m.with_locked(f) on the object w, const or not
call_with_locked(t, w, is_const, f) ==
    /\ pc[t] = "idle"
    /\ WellFormed(is_const, f)
    /\ LET o == with_locked_overload(is_const, f) IN
         /\ op' = [op EXCEPT ![t] = o]
         /\ pc' = [pc EXCEPT ![t] = IF o = "with_locked" THEN "lock" ELSE "ps_lock"]
    /\ obj' = [obj EXCEPT ![t] = w]
    /\ fn' = [fn EXCEPT ![t] = f]
    /\ receiver' = [receiver EXCEPT ![t] = IF is_const THEN "const" ELSE "mutable"]
    /\ UNCHANGED <<config, objects, local, ret, timeout, owns, stats, all_locker, ncalls,
                   nb_notified, exc>>

\* ---- SpecOverload: with_locked called on const and non-const Mutexed<int,
\* lockable_spy<M>, H> with functors taking T const&, T and T&
InitOverload ==
    /\ \E b \in BOOLEAN : shared_lockable = [w \in Wrappers |-> b]
    /\ spy = [w \in Wrappers |-> TRUE]
    /\ \E b \in BOOLEAN : has_cv = [w \in Wrappers |-> b]
    /\ InitObjects(flagged_int)
    /\ InitThreads

NextOverload ==
    \E t \in Threads :
        \/ \E is_const \in BOOLEAN : \E f \in {"read", "copy", "set"} :
               call_with_locked(t, "a", is_const, f)
        \/ possibly_shared_lock_ctor(t)
        \/ lock_ctor(t)
        \/ invoke_const(t)
        \/ invoke_read(t)
        \/ invoke_write(t)
        \/ lock_guard_dtor(t)
        \/ defer_notify_dtor(t)
        \/ possibly_shared_lock_dtor(t)
        \/ Return(t)

SpecOverload == InitOverload /\ [][NextOverload]_vars

\* C19: with_locked(f) runs on the read path (possibly_shared_lock, so only shared
\* calls on a shared-capable M, and no notify_all) when the object is const or f
\* takes the value or a const reference to it, and on the write path (exclusive
\* lock, notify_all once at the exit of a waiting-enabled wrapper) only when the
\* object is not const and f takes a non-const reference.
ReadPathForConstFunctor ==
    \A t \in Threads :
        receiver[t] # "none" =>
            IF receiver[t] = "const" \/ ParamOf(fn[t]) \in {"T", "T const&"}
              THEN /\ op[t] = "with_locked_const"
                   /\ shared_lockable[obj[t]] => UniqueCalls(stats[t][obj[t]]) = 0
                   /\ nb_notified[t] = 0
              ELSE /\ op[t] = "with_locked"
                   /\ SharedCalls(stats[t][obj[t]]) = 0
                   /\ pc[t] = "return" /\ has_cv[obj[t]] => nb_notified[t] = 1

\* C20: a with_all_locked caller that is in, or about to enter, a blocking lock
\* (or lock_shared) holds no wrapper's mutex; and the only thing a caller does after
\* a failed try_lock is to release everything it holds, which leaves it about to
\* block on the argument whose try_lock failed.
BacksOffBeforeBlocking ==
    /\ [](\A t \in Threads :
              (op[t] = "with_all_locked" /\ pc[t] = "std_lock") =>
                  /\ nlocked[t] = 0
                  /\ \A w \in Wrappers : ~Holds(t, w))
    /\ [][\A t \in Threads :
              /\ (pc[t] = "try_lock" /\ pc'[t] \notin {"try_lock", "invoke_all"}) =>
                     pc'[t] = "back_off"
              /\ (pc[t] = "back_off" /\ pc'[t] # "back_off") =>
                     /\ pc'[t] = "std_lock"
                     /\ first'[t] = Nth(t, nlocked[t])
                     /\ \A w \in Wrappers : ~Holds(t, w)']_vars

\* a caller of two wrappers has backed off: it blocks on its second argument, which
\* another caller holds, and the first argument it had locked is free again
BlockedHoldingNothing ==
    \E t \in Threads : \E u \in Threads \ {t} :
        /\ pc[t] = "std_lock" /\ Len(args[t]) = 2 /\ first[t] = 2
        /\ ~ProxyCanLock(args[t][2]) /\ Holds(u, args[t][2].m)
        /\ mtx_[args[t][1].m].owner = {} /\ mtx_[args[t][1].m].sharers = {}

\* C21: a thread blocked on the condition variable inside wait, wait_for or
\* wait_until holds no mutex; the step that starts the blocking both releases the
\* lock and puts the thread among those notify_all wakes, with no state in between;
\* and a writer whose only competitors are blocked waiters can take the exclusive
\* lock at once.
BlockedWaiterHoldsNothing ==
    /\ [](\A t \in Threads :
              /\ pc[t] = "blocked" => ~Holds(t, obj[t])
              /\ pc[t] = "cv_wait" => HoldsPossiblyShared(t, obj[t]) /\ t \notin cv_[obj[t]]
              /\ (pc[t] = "lock" /\ \A u \in Threads \ {t} : pc[u] = "blocked")
                     => ENABLED lock_ctor(t))
    /\ [][\A t \in Threads :
              (pc[t] = "cv_wait" /\ pc'[t] # "cv_wait") =>
                  /\ pc'[t] = "blocked"
                  /\ t \in cv_'[obj[t]]
                  /\ ~Holds(t, obj[t])']_vars

\* a writer holds the exclusive lock while a waiter is blocked on the condition
\* variable of the same wrapper
WriterInsideWhileWaiterBlocked ==
    \E t \in Threads : \E u \in Threads \ {t} :
        /\ op[t] \in WaitOps /\ pc[t] = "blocked" /\ t \in cv_[obj[t]]
        /\ op[u] \in WriteAccessors /\ obj[u] = obj[t] /\ HoldsExclusive(u, obj[u])

\* ---- SpecBalance: the calls of SpecExits, returning and throwing, on Mutexed
\* whose mutexes are lockable_spy<M>, so that every lock, try_lock and unlock of
\* either mode is counted for the thread that made it
InitBalance ==
    /\ \E b \in BOOLEAN : shared_lockable = [w \in Wrappers |-> b]
    /\ spy = [w \in Wrappers |-> TRUE]
    /\ \E b \in BOOLEAN : has_cv = [w \in Wrappers |-> b]
    /\ InitObjects(flagged_int)
    /\ InitThreads

SpecBalance == InitBalance /\ [][NextExits]_vars

\* the running call of t works on the wrapper w
Involves(t, w) ==
    IF op[t] = "with_all_locked"
      THEN \E i \in 1..Len(args[t]) : args[t][i].m = w
      ELSE op[t] # "none" /\ obj[t] = w

\* t is in no accessor of w and has no guard of w: it runs no call on w, or the
\* call has released everything and is returning
Outside(t, w) == pc[t] \in {"idle", "return"} \/ ~Involves(t, w)

\* C22: a thread that is in no accessor of a wrapper and has no guard of it holds
\* the wrapper's mutex in neither mode, so the mutex is free when that is true of
\* every thread; and, for calls that return and calls that throw, a thread starts
\* to hold a mutex in a mode only by its own lock or try_lock of that mode, made
\* while it did not hold it, and stops only by its own unlock of that mode, made
\* while it held it: each acquisition is undone by exactly one unlock.
LockBalance ==
    /\ [](\A w \in Wrappers :
              /\ \A t \in Threads : Outside(t, w) => ~Holds(t, w)
              /\ (\A t \in Threads : Outside(t, w)) => mtx_[w] = free_mutex)
    /\ [][\A t \in Threads : \A w \in Wrappers :
              LET st == stats[t][w]
                  st2 == stats'[t][w]
                  running == ~(pc[t] = "return" /\ pc'[t] = "idle")
              IN /\ (~HoldsExclusive(t, w) /\ HoldsExclusive(t, w)') =>
                        \/ st2.nb_locked = Bump(st.nb_locked) /\ st2.nb_try_locked = st.nb_try_locked
                        \/ st2.nb_try_locked = Bump(st.nb_try_locked) /\ st2.nb_locked = st.nb_locked
                 /\ (HoldsExclusive(t, w) /\ ~HoldsExclusive(t, w)') =>
                        st2.nb_unlocked = Bump(st.nb_unlocked)
                 /\ (~HoldsShared(t, w) /\ HoldsShared(t, w)') =>
                        \/ st2.nb_locked_shared = Bump(st.nb_locked_shared)
                             /\ st2.nb_try_locked_shared = st.nb_try_locked_shared
                        \/ st2.nb_try_locked_shared = Bump(st.nb_try_locked_shared)
                             /\ st2.nb_locked_shared = st.nb_locked_shared
                 /\ (HoldsShared(t, w) /\ ~HoldsShared(t, w)') =>
                        st2.nb_unlocked_shared = Bump(st.nb_unlocked_shared)
                 /\ (running /\ st2.nb_locked > st.nb_locked) =>
                        ~Holds(t, w) /\ HoldsExclusive(t, w)'
                 /\ (running /\ st2.nb_unlocked > st.nb_unlocked) =>
                        HoldsExclusive(t, w) /\ ~Holds(t, w)'
                 /\ (running /\ st2.nb_locked_shared > st.nb_locked_shared) =>
                        ~Holds(t, w) /\ HoldsShared(t, w)'
                 /\ (running /\ st2.nb_unlocked_shared > st.nb_unlocked_shared) =>
                        HoldsShared(t, w) /\ ~Holds(t, w)'
                 /\ (running /\ st2.nb_try_locked > st.nb_try_locked) =>
                        ~Holds(t, w) /\ ~HoldsShared(t, w)'
                 /\ (running /\ st2.nb_try_locked_shared > st.nb_try_locked_shared) =>
                        ~Holds(t, w) /\ ~HoldsExclusive(t, w)'
                 /\ st2.nb_unlocked <= st2.nb_locked + st2.nb_try_locked
                 /\ st2.nb_unlocked_shared <= st2.nb_locked_shared + st2.nb_try_locked_shared]_vars

\* a with_all_locked whose functor threw has returned after a try_lock, every
\* mutex it had acquired is free again, each unlocked once
ThrowingCallBalanced ==
    \E t \in Threads :
        /\ op[t] = "with_all_locked" /\ pc[t] = "return" /\ exc[t]
        /\ Len(args[t]) = 2
        /\ \A i \in 1..2 :
               LET st == stats[t][args[t][i].m]
               IN st.nb_unlocked + st.nb_unlocked_shared = 1
        /\ \E i \in 1..2 :
               LET st == stats[t][args[t][i].m]
               IN st.nb_try_locked + st.nb_try_locked_shared = 1
        /\ \A w \in Wrappers : mtx_[w] = free_mutex

\* ---- SpecLive: concurrent callers of with_all_locked, each making a bounded
\* number of calls with any argument list, every thread being scheduled fairly
InitLive ==
    /\ \E b \in BOOLEAN : shared_lockable = [w \in Wrappers |-> b]
    /\ spy = [w \in Wrappers |-> FALSE]
    /\ has_cv = [w \in Wrappers |-> FALSE]
    /\ InitObjects(flagged_int)
    /\ InitThreads

CallLive(t) ==
    /\ ncalls[t] < LiveCalls
    /\ Counted(t)
    /\ \E as \in ArgLists : with_all_locked(t, as, "set")

NextLive == \E t \in Threads : CallLive(t) \/ StepsAll(t)

\* a thread that can go on is scheduled again
FairLive == \A t \in Threads : WF_vars(StepsAll(t))

SpecLive == InitLive /\ [][NextLive]_vars /\ FairLive

\* a try_lock() of std::lock that acquires
try_lock_acquires(t) == std_lock_try(t) /\ nlocked'[t] = nlocked[t] + 1

\* the mutexes are fair to each caller: a lock(), and a try_lock(), that can
\* acquire again and again eventually does
StrongAcquire ==
    \A t \in Threads : SF_vars(std_lock_block(t)) /\ SF_vars(try_lock_acquires(t))

\* a try_lock() that fails although the mutex could be acquired
spurious_failure(t) ==
    /\ std_lock_try(t)
    /\ pc'[t] = "back_off"
    /\ ProxyCanLock(args[t][Nth(t, nlocked[t])])

\* every with_all_locked call eventually holds all its wrappers and invokes f
EveryCallInvokes ==
    \A t \in Threads : (pc[t] = "std_lock") ~> (pc[t] = "invoke_all")

\* C23 as stated: under fair scheduling every with_all_locked call eventually
\* invokes f, callers cannot keep each other in the try/release/retry loop
\* forever; granted here that try_lock fails spuriously only finitely often.
NoLivelock ==
    (\A t \in Threads : <>[][~spurious_failure(t)]_vars) => EveryCallInvokes

\* C23, corrected: fair scheduling alone does not bring a with_all_locked call to
\* its functor; it does, for finitely many concurrent calls, when in addition
\* every caller's lock or try_lock that can succeed again and again eventually
\* succeeds.
EveryCallInvokesIfAcquisitionFair == StrongAcquire => EveryCallInvokes

\* the two callers list the wrappers in swapped orders, each holds its first
\* wrapper and each has just failed the try_lock on the other's
BothBackingOff ==
    \E t \in Threads : \E u \in Threads \ {t} :
        /\ pc[t] = "back_off" /\ pc[u] = "back_off"
        /\ Len(args[t]) = 2 /\ Len(args[u]) = 2
        /\ args[t][Nth(t, 0)].m = args[u][Nth(u, 1)].m
        /\ args[t][Nth(t, 1)].m = args[u][Nth(u, 0)].m
        /\ ProxyHolds(args[t][Nth(t, 0)], t) /\ ProxyHolds(args[u][Nth(u, 0)], u)
        /\ ~ProxyCanLock(args[t][Nth(t, 1)]) /\ ~ProxyCanLock(args[u][Nth(u, 1)])

\* t is blocked on the condition variable inside wait(p) although p holds
Lost(t) ==
    /\ op[t] = "wait" /\ pc[t] = "blocked" /\ t \in cv_[obj[t]]
    /\ was_initialized(val_[obj[t]])

\* C24: where the wrappers are written by with_all_locked only, a waiter that is
\* blocked inside wait(p) while p holds cannot go on by itself, and no step of any
\* thread ends that situation except a spurious wake-up, which nothing forces: the
\* waiter may stay blocked for ever.
WaitMayHangAfterWithAllLocked ==
    /\ [](\A t \in Threads :
              Lost(t) => ~ENABLED (cv_relock(t) \/ pred(t) \/ possibly_shared_lock_dtor(t)
                                     \/ Return(t)))
    /\ [][\A t \in Threads : Lost(t) => (Lost(t)' \/ spurious_wakeup(t))]_vars

\* the with_all_locked call that made p true by writing the wrapper under its
\* exclusive lock is over, its thread is idle and every mutex is free; the waiter
\* is still blocked on the condition variable
WaiterLeftBlocked ==
    \E t \in Waiters :
        /\ Lost(t)
        /\ pc[Writer] = "idle"
        /\ \A w \in Wrappers : mtx_[w] = free_mutex

====
